---- MODULE Spec2Model ----
(***************************************************************************)
(* Jira sprint dev-type point summary (browser extension).                 *)
(*                                                                         *)
(* Two variants of the content script are modelled:                        *)
(*   "api" : src/unnamed/part_001 (board configuration + backlog data API) *)
(*   "dom" : src/content.js, lines 172-457 (DOM scraping with retries)     *)
(*                                                                         *)
(* Strings are TLA+ strings; TLC evaluates Len, SubSeq and \o on them, so  *)
(* toLowerCase, includes, trim, parseInt and the regular expressions are   *)
(* computed character by character.                                        *)
(***************************************************************************)
EXTENDS Integers, Sequences, FiniteSets, TLC

VARIABLES
    variant,          \* which content script runs on the page: "api" or "dom"
    url,              \* window.location.href
    lastUrl,          \* lastUrl of the URL-change observer
    loaded,           \* the initial setTimeout callback has run
    injectedSprints,  \* let injectedSprints = new Set()
    sprintData,       \* let sprintData = new Map(), in insertion order
    cfgInFlight,      \* pending board-configuration requests
    dataInFlight,     \* pending backlog-data requests
    badges,           \* per statistics area: the injected .dev-type-summary elements
    attemptCount,     \* let attemptCount (dom variant)
    scans,            \* passes over the sprint containers since the last trigger
    retryTimers,      \* pending setTimeout(addDevTypeSummaries, RETRY_DELAY)
    dom,              \* the host page: its sprint anchors / containers, in document order
    cycles,           \* number of refresh cycles started so far
    last,             \* the handler that ran last and what it decided
    navigated,        \* the address has changed since the script was loaded
    mutated,          \* the host has changed the page's containers since then
    arg,              \* argument of the function call under test
    ret               \* its return value

vars == <<variant, url, lastUrl, loaded, injectedSprints, sprintData, cfgInFlight,
          dataInFlight, badges, attemptCount, scans, retryTimers, dom, cycles, last,
          navigated, mutated, arg, ret>>

\* the state of the content script's life cycle other than url, sprintData, last
lifeVars == <<variant, lastUrl, loaded, injectedSprints, cfgInFlight, dataInFlight,
              badges, attemptCount, scans, retryTimers, dom, cycles, navigated, mutated>>

-----------------------------------------------------------------------------
(* Strings *)

Upper == <<"A","B","C","D","E","F","G","H","I","J","K","L","M",
           "N","O","P","Q","R","S","T","U","V","W","X","Y","Z">>
Lower == <<"a","b","c","d","e","f","g","h","i","j","k","l","m",
           "n","o","p","q","r","s","t","u","v","w","x","y","z">>
Digits == <<"0","1","2","3","4","5","6","7","8","9">>

CharAt(s, i) == SubSeq(s, i, i)

IsDigit(c) == \E k \in 1..10 : Digits[k] = c

DigitVal(c) == (CHOOSE k \in 1..10 : Digits[k] = c) - 1

IsSpace(c) == c = " "

UpperSet == {Upper[k] : k \in 1..26}

LowerSet == {Lower[k] : k \in 1..26}

toLowerChar(c) ==
    IF c \in UpperSet
    THEN Lower[CHOOSE k \in 1..26 : Upper[k] = c]
    ELSE c

RECURSIVE toLowerCase(_)
toLowerCase(s) ==
    IF Len(s) = 0 THEN ""
    ELSE toLowerChar(CharAt(s, 1)) \o toLowerCase(SubSeq(s, 2, Len(s)))

includes(s, sub) ==
    \E i \in 0..(Len(s) - Len(sub)) : SubSeq(s, i + 1, i + Len(sub)) = sub

RECURSIVE trimStart(_)
trimStart(s) ==
    IF Len(s) > 0 /\ IsSpace(CharAt(s, 1)) THEN trimStart(SubSeq(s, 2, Len(s))) ELSE s

RECURSIVE trimEnd(_)
trimEnd(s) ==
    IF Len(s) > 0 /\ IsSpace(CharAt(s, Len(s))) THEN trimEnd(SubSeq(s, 1, Len(s) - 1)) ELSE s

trim(s) == trimEnd(trimStart(s))

\* the longest run of digits of s that starts at position i
RECURSIVE DigitRun(_, _)
DigitRun(s, i) ==
    IF i <= Len(s) /\ IsDigit(CharAt(s, i))
    THEN CharAt(s, i) \o DigitRun(s, i + 1)
    ELSE ""

RECURSIVE DecimalValue(_)
DecimalValue(ds) ==
    IF Len(ds) = 0 THEN 0
    ELSE 10 * DecimalValue(SubSeq(ds, 1, Len(ds) - 1)) + DigitVal(CharAt(ds, Len(ds)))

\* all concatenations of at most n parts
RECURSIVE Concats(_, _)
Concats(parts, n) ==
    IF n = 0 THEN {""}
    ELSE LET shorter == Concats(parts, n - 1)
         IN  shorter \cup {s \o p : s \in shorter, p \in parts}

-----------------------------------------------------------------------------
(* Classifier *)

\* API variant: [fullstack], [fs] before [fe], [frontend] before [be], [backend]
getDevType_FEFirst(summary) ==
    LET lowerSummary == toLowerCase(summary)
    IN  IF includes(lowerSummary, "[fe]") \/ includes(lowerSummary, "[frontend]")
        THEN "FE"
        ELSE IF includes(lowerSummary, "[fullstack]") \/ includes(lowerSummary, "[fs]")
        THEN "Fullstack"
        ELSE IF includes(lowerSummary, "[be]") \/ includes(lowerSummary, "[backend]")
        THEN "BE"
        ELSE "Other"

getDevType_OtherAsBE(summary) ==
    LET lowerSummary == toLowerCase(summary)
    IN  IF includes(lowerSummary, "[fullstack]") \/ includes(lowerSummary, "[fs]")
        THEN "Fullstack"
        ELSE IF includes(lowerSummary, "[fe]") \/ includes(lowerSummary, "[frontend]")
        THEN "FE"
        ELSE "BE"

getDevType(summary) ==
    LET lowerSummary == toLowerCase(summary)
    IN  IF includes(lowerSummary, "[fullstack]") \/ includes(lowerSummary, "[fs]")
        THEN "Fullstack"
        ELSE IF includes(lowerSummary, "[fe]") \/ includes(lowerSummary, "[frontend]")
        THEN "FE"
        ELSE IF includes(lowerSummary, "[be]") \/ includes(lowerSummary, "[backend]")
        THEN "BE"
        ELSE "Other"

\* DOM variant: only [fullstack], [fe], [be]
getDevTypeDom(summary) ==
    LET lowerSummary == toLowerCase(summary)
    IN  IF includes(lowerSummary, "[fullstack]") THEN "Fullstack"
        ELSE IF includes(lowerSummary, "[fe]") THEN "FE"
        ELSE IF includes(lowerSummary, "[be]") THEN "BE"
        ELSE "Other"

-----------------------------------------------------------------------------
(* Locator *)

\* s.match(/<prefix>(\d+)/) scanning from position i: <<>> for null, else
\* <<digits>> of the leftmost match, the digit group taken greedily
RECURSIVE matchDigitsAfter(_, _, _)
matchDigitsAfter(s, prefix, i) ==
    IF i + Len(prefix) > Len(s) THEN <<>>
    ELSE IF /\ SubSeq(s, i, i + Len(prefix) - 1) = prefix
            /\ IsDigit(CharAt(s, i + Len(prefix)))
         THEN <<DigitRun(s, i + Len(prefix))>>
         ELSE matchDigitsAfter(s, prefix, i + 1)

extractBoardId_LegacyFirst(href) ==
    LET legacy == matchDigitsAfter(href, "rapidView=", 1)
        modern == matchDigitsAfter(href, "boards/", 1)
    IN  IF legacy # <<>> THEN legacy[1]
        ELSE IF modern # <<>> THEN modern[1]
        ELSE "24"

extractBoardId(href) ==
    LET modern == matchDigitsAfter(href, "boards/", 1)
        legacy == matchDigitsAfter(href, "rapidView=", 1)
    IN  IF modern # <<>> THEN modern[1]
        ELSE IF legacy # <<>> THEN legacy[1]
        ELSE "24"

-----------------------------------------------------------------------------
(* Aggregator, API variant: processSprintData *)

Categories == {"BE", "FE", "Fullstack"}

ZeroSummary == [BE |-> 0, FE |-> 0, Fullstack |-> 0]

ZeroDetailed == [BE        |-> [inProgress |-> 0, done |-> 0],
                 FE        |-> [inProgress |-> 0, done |-> 0],
                 Fullstack |-> [inProgress |-> 0, done |-> 0]]

doneStatuses == {"Closed", "Done", "On Prod", "On RC", "Won't Do"}

\* Map operations on sprintData: a sequence of entries in insertion order,
\* at most one entry per key (entry.id)
MapHas(map, id) == \E i \in 1..Len(map) : map[i].id = id

MapIndex(map, id) == CHOOSE i \in 1..Len(map) : map[i].id = id

MapGet(map, id) == map[MapIndex(map, id)]

MapSet(map, entry) ==
    IF MapHas(map, entry.id)
    THEN [map EXCEPT ![MapIndex(map, entry.id)] = entry]
    ELSE Append(map, entry)

MapClear(map) == <<>>

\* sprints.forEach(sprint => sprintData.set(sprint.id, {...zeroes}))
RECURSIVE initSprints(_, _)
initSprints(map, sprints) ==
    IF Len(sprints) = 0 THEN map
    ELSE initSprints(MapSet(map, [id       |-> Head(sprints).id,
                                  name     |-> Head(sprints).name,
                                  state    |-> Head(sprints).state,
                                  summary  |-> ZeroSummary,
                                  detailed |-> ZeroDetailed]),
                     Tail(sprints))

\* issue.estimateStatistic?.statFieldValue?.value || 0
storyPointsOf(issue) == IF issue.estimate = <<>> THEN 0 ELSE issue.estimate[1]

\* the sprints an issue is counted in: none, or its most recent sprint id (the
\* last entry of sprintIds) when the map has it
targetSprints_AllKnown(map, sprintIds) ==
    {sprintIds[i] : i \in {j \in 1..Len(sprintIds) : MapHas(map, sprintIds[j])}}

targetSprints_LastKnown(map, sprintIds) ==
    LET known == {j \in 1..Len(sprintIds) : MapHas(map, sprintIds[j])}
    IN  IF known = {} THEN {}
        ELSE {sprintIds[CHOOSE j \in known : \A k \in known : k <= j]}

targetSprints(map, sprintIds) ==
    IF Len(sprintIds) > 0
    THEN LET mostRecentSprintId == sprintIds[Len(sprintIds)]
         IN  IF MapHas(map, mostRecentSprintId) THEN {mostRecentSprintId} ELSE {}
    ELSE {}

addPoints_Assign(entry, devType, storyPoints, isDone) ==
    [entry EXCEPT
        !.summary[devType] = storyPoints,
        !.detailed[devType] =
            IF isDone THEN [@ EXCEPT !.done = storyPoints]
                      ELSE [@ EXCEPT !.inProgress = storyPoints]]

addPoints_DoneOnly(entry, devType, storyPoints, isDone) ==
    [entry EXCEPT
        !.summary[devType] = @ + storyPoints,
        !.detailed[devType] = [@ EXCEPT !.done = @ + storyPoints]]

addPoints(entry, devType, storyPoints, isDone) ==
    [entry EXCEPT
        !.summary[devType] = @ + storyPoints,
        !.detailed[devType] =
            IF isDone THEN [@ EXCEPT !.done = @ + storyPoints]
                      ELSE [@ EXCEPT !.inProgress = @ + storyPoints]]

\* the body of issues.forEach
processIssue(map, issue) ==
    LET storyPoints == storyPointsOf(issue)
        devType     == getDevType(issue.summary)
        isDone      == issue.statusName \in doneStatuses
        targets     == IF devType # "Other"
                       THEN targetSprints(map, issue.sprintIds) ELSE {}
    IN  IF storyPoints = 0 THEN map
        ELSE [i \in 1..Len(map) |->
                 IF map[i].id \in targets
                 THEN addPoints(map[i], devType, storyPoints, isDone)
                 ELSE map[i]]

RECURSIVE processIssues(_, _)
processIssues(map, issues) ==
    IF Len(issues) = 0 THEN map
    ELSE processIssues(processIssue(map, Head(issues)), Tail(issues))

processSprintData_NoClear(map, data) ==
    processIssues(initSprints(map, data.sprints), data.issues)

processSprintData_KeepFirst(map, data) ==
    IF Len(map) > 0 THEN map ELSE processSprintData_NoClear(map, data)

processSprintData(map, data) ==
    processIssues(initSprints(MapClear(map), data.sprints), data.issues)

-----------------------------------------------------------------------------
(* Aggregator, DOM variant: calculateDevTypeSummary *)

\* parseInt(text) || 0 : optional sign, then the leading digits; NaN gives 0
parseIntOr0(text) ==
    LET t      == trimStart(text)
        signed == Len(t) > 0 /\ CharAt(t, 1) \in {"-", "+"}
        ds     == DigitRun(t, IF signed THEN 2 ELSE 1)
    IN  IF Len(ds) = 0 THEN 0
        ELSE IF signed /\ CharAt(t, 1) = "-" THEN 0 - DecimalValue(ds)
        ELSE DecimalValue(ds)

\* /^\d+$/.test(text)
allDigits(text) == Len(text) > 0 /\ DigitRun(text, 1) = text

RECURSIVE joinTexts(_)
joinTexts(texts) ==
    IF Len(texts) = 0 THEN "" ELSE Head(texts) \o joinTexts(Tail(texts))

\* issue.textContent: the text of the row's cells and of its designated elements
textContentOf(issue) ==
    joinTexts(issue.cells) \o joinTexts(issue.summaryEl) \o joinTexts(issue.pointsEl)

domStoryPoints(issue) ==
    IF issue.pointsEl # <<>> THEN parseIntOr0(trim(issue.pointsEl[1]))
    ELSE IF Len(issue.cells) > 0
         THEN LET text == trim(issue.cells[Len(issue.cells)])
              IN  IF allDigits(text) THEN parseIntOr0(text) ELSE 0
         ELSE 0

domSummaryText(issue) ==
    IF issue.summaryEl # <<>> THEN trim(issue.summaryEl[1])
    ELSE LET tagged == {i \in 1..Len(issue.cells) :
                          LET text == trim(issue.cells[i])
                          IN  \/ includes(text, "[BE]")
                              \/ includes(text, "[FE]")
                              \/ includes(text, "[Fullstack]")}
         IN  IF tagged # {}
             THEN trim(issue.cells[CHOOSE i \in tagged : \A k \in tagged : i <= k])
             ELSE trim(textContentOf(issue))

\* the body of issues.forEach
domCountIssue(summary, issue) ==
    LET storyPoints == domStoryPoints(issue)
        devType     == getDevTypeDom(domSummaryText(issue))
    IN  IF issue.rowheader THEN summary
        ELSE IF storyPoints = 0 THEN summary
        ELSE IF Len(domSummaryText(issue)) = 0 THEN summary
        ELSE IF devType # "Other"
             THEN [summary EXCEPT ![devType] = @ + storyPoints]
             ELSE summary

RECURSIVE domCountIssues(_, _)
domCountIssues(summary, issues) ==
    IF Len(issues) = 0 THEN summary
    ELSE domCountIssues(domCountIssue(summary, Head(issues)), Tail(issues))

calculateDevTypeSummary(issues) == domCountIssues(ZeroSummary, issues)

-----------------------------------------------------------------------------
(* Bounds and input universes *)

MaxTitleParts == 3
MaxUrlParts == 4
MaxIssues == 4
MaxSprints == 2
MaxRerunIssues == 2

TitleParts == {"[FS]", "[fs]", "[Fullstack]", "[fullSTACK]", "[FE]", "[Frontend]",
               "[BE]", "[backend]", "[", "FS", "]", " fix "}

Titles == Concats(TitleParts, MaxTitleParts)

UrlParts == {"boards/", "rapidView=", "42", "17", "/backlog?", "x", "dash", "&"}

Addresses == Concats(UrlParts, MaxUrlParts)

\* the entries of pool at the indices in S, in pool order
RECURSIVE Pick(_, _, _)
Pick(pool, S, i) ==
    IF i > Len(pool) THEN <<>>
    ELSE IF i \in S THEN <<pool[i]>> \o Pick(pool, S, i + 1)
    ELSE Pick(pool, S, i + 1)

SubLists(pool, n) ==
    {Pick(pool, S, 1) : S \in {T \in SUBSET (1..Len(pool)) : Cardinality(T) <= n}}

\* sequences of at most n distinct elements of S
Arrangements(S, n) ==
    {q \in UNION {[1..k -> S] : k \in 0..n} :
        \A i, j \in 1..Len(q) : i # j => q[i] # q[j]}

SprintPool ==
    {[id |-> 1, name |-> "Sprint 7",  state |-> "ACTIVE"],
     [id |-> 2, name |-> "Sprint 8",  state |-> "FUTURE"],
     [id |-> 1, name |-> "Sprint 7b", state |-> "FUTURE"]}

Issue(summary, estimate, sprintIds, statusName) ==
    [summary |-> summary, estimate |-> estimate, sprintIds |-> sprintIds,
     statusName |-> statusName]

IssuePool ==
    << Issue("[BE] Fix login",             <<3>>, <<1>>,    "In Progress"),
       Issue("[FE] Update nav",            <<5>>, <<1>>,    "Done"),
       Issue("[FS] Shared util",           <<2>>, <<1, 2>>, ""),
       Issue("Misc cleanup",               <<1>>, <<1>>,    "To Do"),
       Issue("[be] Tagged zero",           <<0>>, <<1>>,    "Done"),
       Issue("[Frontend] No estimate",     <<>>,  <<2>>,    "Closed"),
       Issue("[fe] Moved away",            <<2>>, <<1, 9>>, "Closed"),
       Issue("[Backend] Nowhere",          <<4>>, <<>>,     "On RC"),
       Issue("[Fullstack][FE] Back again", <<1>>, <<2, 1>>, "Won't Do"),
       Issue("[be] Second backend",        <<2>>, <<2, 1>>, "Done") >>

RerunIssuePool == <<IssuePool[1], IssuePool[3], IssuePool[7], IssuePool[9]>>

ApiInputs ==
    {[kind |-> "api", sprints |-> sp, issues |-> is] :
        sp \in Arrangements(SprintPool, MaxSprints),
        is \in SubLists(IssuePool, MaxIssues)}

RerunInputs ==
    {[kind |-> "api", sprints |-> sp, issues |-> is] :
        sp \in Arrangements(SprintPool, MaxSprints),
        is \in SubLists(RerunIssuePool, MaxRerunIssues)}

Row(rowheader, pointsEl, cells, summaryEl) ==
    [rowheader |-> rowheader, pointsEl |-> pointsEl, cells |-> cells,
     summaryEl |-> summaryEl]

DomIssuePool ==
    << Row(FALSE, <<" 3 ">>, <<>>, <<"[BE] Fix login">>),
       Row(FALSE, <<"5">>,   <<>>, <<" [fe] Update nav ">>),
       Row(FALSE, <<"2">>,   <<>>, <<"[FS] Shared util">>),
       Row(FALSE, <<"1">>,   <<>>, <<"Misc cleanup">>),
       Row(FALSE, <<"-">>,   <<>>, <<"[BE] Unestimated">>),
       Row(FALSE, <<"0">>,   <<>>, <<"[FE] Zero">>),
       Row(TRUE,  <<"3">>,   <<>>, <<"[BE] Header row">>),
       Row(FALSE, <<>>, <<"KEY-1", "[Fullstack] In a cell", " 8 ">>, <<>>),
       Row(FALSE, <<>>, <<"[be] lower tag", "4">>, <<>>),
       Row(FALSE, <<>>, <<"[FE] Not a number", "3 pts">>, <<>>) >>

DomInputs ==
    {[kind |-> "dom", issues |-> is] : is \in SubLists(DomIssuePool, MaxIssues)}

-----------------------------------------------------------------------------
(* Specifications of the pure functions: Init draws the input, one action   *)
(* per function applies it                                                  *)

LifeIdle ==
    /\ variant = "none" /\ lastUrl = "" /\ loaded = FALSE
    /\ injectedSprints = {} /\ cfgInFlight = {} /\ dataInFlight = {}
    /\ badges = <<>> /\ attemptCount = 0 /\ scans = 0 /\ retryTimers = 0
    /\ dom = <<>>
    /\ cycles = 0 /\ navigated = FALSE /\ mutated = FALSE

InitClassify ==
    /\ LifeIdle /\ url = "" /\ sprintData = <<>>
    /\ last = [op |-> "init"]
    /\ arg \in Titles
    /\ ret = [api |-> "", dom |-> ""]

Classify ==
    /\ last.op = "init"
    /\ ret' = [api |-> getDevType(arg), dom |-> getDevTypeDom(arg)]
    /\ last' = [op |-> "getDevType"]
    /\ UNCHANGED <<lifeVars, url, sprintData, arg>>

SpecClassify == InitClassify /\ [][Classify]_vars

InitLocator ==
    /\ LifeIdle /\ sprintData = <<>>
    /\ last = [op |-> "init"]
    /\ url \in Addresses
    /\ arg = ""
    /\ ret = ""

ExtractBoardId ==
    /\ last.op = "init"
    /\ ret' = extractBoardId(url)
    /\ last' = [op |-> "extractBoardId"]
    /\ UNCHANGED <<lifeVars, url, sprintData, arg>>

SpecLocator == InitLocator /\ [][ExtractBoardId]_vars

InitAgg ==
    /\ LifeIdle /\ url = "" /\ sprintData = <<>>
    /\ last = [op |-> "init"]
    /\ arg \in ApiInputs \cup DomInputs
    /\ ret = ZeroSummary

RunProcessSprintData ==
    /\ last.op = "init"
    /\ arg.kind = "api"
    /\ sprintData' = processSprintData(sprintData, arg)
    /\ last' = [op |-> "processSprintData"]
    /\ UNCHANGED <<lifeVars, url, arg, ret>>

RunCalculateDevTypeSummary ==
    /\ last.op = "init"
    /\ arg.kind = "dom"
    /\ ret' = calculateDevTypeSummary(arg.issues)
    /\ last' = [op |-> "calculateDevTypeSummary"]
    /\ UNCHANGED <<lifeVars, url, sprintData, arg>>

NextAgg == RunProcessSprintData \/ RunCalculateDevTypeSummary

SpecAgg == InitAgg /\ [][NextAgg]_vars

\* the aggregation run again and again, each time on a response of the server
InitRerun ==
    /\ LifeIdle /\ url = "" /\ sprintData = <<>>
    /\ last = [op |-> "init", runs |-> 0, stale |-> FALSE]
    /\ arg = [kind |-> "api", sprints |-> <<>>, issues |-> <<>>]
    /\ ret = ZeroSummary

Refresh(data) ==
    /\ sprintData' = processSprintData(sprintData, data)
    /\ arg' = data
    /\ last' = [op |-> "processSprintData",
                runs |-> IF last.runs < 2 THEN last.runs + 1 ELSE 2,
                stale |-> \E i \in 1..Len(sprintData) :
                            /\ sprintData[i].summary # ZeroSummary
                            /\ \A j \in 1..Len(data.sprints) :
                                   data.sprints[j].id # sprintData[i].id]
    /\ UNCHANGED <<lifeVars, url, ret>>

NextRerun == \E data \in RerunInputs : Refresh(data)

SpecRerun == InitRerun /\ [][NextRerun]_vars

-----------------------------------------------------------------------------
(* Properties of the classifier and of the locator *)

SameLetter(a, b) ==
    \/ a = b
    \/ /\ a \in UpperSet /\ b \in LowerSet
       /\ \E k \in 1..26 : Upper[k] = a /\ Lower[k] = b
    \/ /\ a \in LowerSet /\ b \in UpperSet
       /\ \E k \in 1..26 : Lower[k] = a /\ Upper[k] = b

\* s contains tag, letter case ignored
ContainsAnyCase(s, tag) ==
    \E i \in 0..(Len(s) - Len(tag)) :
        \A j \in 1..Len(tag) : SameLetter(CharAt(s, i + j), CharAt(tag, j))

SixTags == {"[FS]", "[Fullstack]", "[FE]", "[Frontend]", "[BE]", "[Backend]"}

MatchesSomeTag(s) == \E tag \in SixTags : ContainsAnyCase(s, tag)

HasFullstackTag(s) == ContainsAnyCase(s, "[FS]") \/ ContainsAnyCase(s, "[Fullstack]")

HasOtherTag(s) ==
    \E tag \in {"[FE]", "[Frontend]", "[BE]", "[Backend]"} : ContainsAnyCase(s, tag)

\* C3 as stated: every title with [FS] or [Fullstack] in any letter case is
\* classified Fullstack by the classifier of the API variant and by that of the
\* DOM variant, whatever other tags it holds.
C3_FullstackWinsEveryVariant ==
    (last.op = "getDevType" /\ HasFullstackTag(arg))
        => (ret.api = "Fullstack" /\ ret.dom = "Fullstack")

\* C3 amended: a title with [Fullstack] in any letter case is classified
\* Fullstack by both variants, and a title with [FS] in any letter case is
\* classified Fullstack by the API variant, whatever other tags it holds.
C3_FullstackWins ==
    last.op = "getDevType" =>
        /\ ContainsAnyCase(arg, "[Fullstack]")
               => (ret.api = "Fullstack" /\ ret.dom = "Fullstack")
        /\ ContainsAnyCase(arg, "[FS]") => ret.api = "Fullstack"

C3_Witness ==
    /\ last.op = "getDevType"
    /\ ContainsAnyCase(arg, "[FS]") /\ ~includes(arg, "[FS]")
    /\ HasOtherTag(arg)
    /\ ret.api = "Fullstack"

\* positions of s where prefix stands and is followed by a digit
PatternAt(s, prefix) ==
    {i \in 1..Len(s) :
        /\ i + Len(prefix) <= Len(s)
        /\ \A j \in 1..Len(prefix) : CharAt(s, i + j - 1) = CharAt(prefix, j)
        /\ IsDigit(CharAt(s, i + Len(prefix)))}

\* the digits that follow the leftmost such position
DigitsAfterFirst(s, prefix) ==
    LET at   == PatternAt(s, prefix)
        from == (CHOOSE i \in at : \A k \in at : i <= k) + Len(prefix)
        to   == CHOOSE e \in from..Len(s) :
                    /\ \A j \in from..e : IsDigit(CharAt(s, j))
                    /\ e = Len(s) \/ ~IsDigit(CharAt(s, e + 1))
    IN  SubSeq(s, from, to)

\* C8: extractBoardId always returns an identifier: the digits after boards/
\* when the address has boards/<digits>, otherwise the digits after rapidView=
\* when it has rapidView=<digits>, otherwise the default "24".
C8_ExtractBoardId ==
    last.op = "extractBoardId" =>
        /\ Len(ret) > 0
        /\ \A j \in 1..Len(ret) : IsDigit(CharAt(ret, j))
        /\ ret = IF PatternAt(url, "boards/") # {}
                 THEN DigitsAfterFirst(url, "boards/")
                 ELSE IF PatternAt(url, "rapidView=") # {}
                 THEN DigitsAfterFirst(url, "rapidView=")
                 ELSE "24"

C8_Witness ==
    /\ last.op = "extractBoardId"
    /\ PatternAt(url, "boards/") # {} /\ PatternAt(url, "rapidView=") # {}
    /\ ret = "42" /\ DigitsAfterFirst(url, "rapidView=") = "17"

-----------------------------------------------------------------------------
(* Properties of the aggregation *)

RECURSIVE SumSeq(_)
SumSeq(q) == IF Len(q) = 0 THEN 0 ELSE Head(q) + SumSeq(Tail(q))

KnownIds(data) == {data.sprints[i].id : i \in 1..Len(data.sprints)}

TotalOf(map, id, c) == IF MapHas(map, id) THEN MapGet(map, id).summary[c] ELSE 0

SumOfCategories(map, id) == TotalOf(map, id, "BE") + TotalOf(map, id, "FE")
                            + TotalOf(map, id, "Fullstack")

WithoutIssue(data, k) ==
    [data EXCEPT !.issues = SubSeq(@, 1, k - 1) \o SubSeq(@, k + 1, Len(@))]

\* the map of the processed response had it been without its issue k
MapWithout(k) == processSprintData(<<>>, WithoutIssue(arg, k))

\* what issue k added to sprint id: the totals in sprintData less the totals
\* in without, the map of the same response without issue k
Contribution(without, id) ==
    SumOfCategories(sprintData, id) - SumOfCategories(without, id)

IsCounted(issue) == storyPointsOf(issue) # 0 /\ MatchesSomeTag(issue.summary)

LastEntry(ids) == IF Len(ids) = 0 THEN {} ELSE {ids[Len(ids)]}

LastKnownEntry(ids, known) ==
    LET at == {j \in 1..Len(ids) : ids[j] \in known}
    IN  IF at = {} THEN {} ELSE {ids[CHOOSE j \in at : \A k \in at : k <= j]}

AggDone == last.op = "processSprintData"

\* C1: a ticket adds to the totals of at most one sprint, and to none but the
\* last entry of its membership list; a counted ticket whose list holds two or
\* more known sprints, the last entry among them, adds its estimate to that one.
C1_LastSprintOnly ==
    AggDone =>
        \A k \in 1..Len(arg.issues) :
            LET issue == arg.issues[k]
                ids   == issue.sprintIds
                wo    == MapWithout(k)
                hit   == {id \in KnownIds(arg) : Contribution(wo, id) # 0}
                known == {j \in 1..Len(ids) : ids[j] \in KnownIds(arg)}
            IN  /\ Cardinality(hit) <= 1
                /\ hit \subseteq LastEntry(ids)
                /\ (/\ IsCounted(issue) /\ Cardinality(known) >= 2
                    /\ Len(ids) \in known)
                       => Contribution(wo, ids[Len(ids)]) = storyPointsOf(issue)

C1_Witness ==
    /\ AggDone
    /\ \E k \in 1..Len(arg.issues) :
          /\ arg.issues[k].sprintIds = <<1, 2>>
          /\ {1, 2} \subseteq KnownIds(arg)
          /\ Contribution(MapWithout(k), 2) = 2
          /\ Contribution(MapWithout(k), 1) = 0

\* C2 as stated: a counted ticket adds its estimate to the last entry of its
\* membership list that is a known sprint ([A, X] with X unknown adds to A),
\* and to no other sprint.
C2_LastKnownSprint ==
    AggDone =>
        \A k \in 1..Len(arg.issues) :
            IsCounted(arg.issues[k]) =>
                LET wo == MapWithout(k)
                IN  \A id \in KnownIds(arg) :
                        Contribution(wo, id) =
                            IF id \in LastKnownEntry(arg.issues[k].sprintIds, KnownIds(arg))
                            THEN storyPointsOf(arg.issues[k]) ELSE 0

\* C2 amended: a counted ticket adds its estimate to the last entry of its
\* membership list when that entry is a known sprint, and to no other sprint;
\* it adds nothing when the list is empty or its last entry is unknown.
C2_LastEntryIfKnown ==
    AggDone =>
        \A k \in 1..Len(arg.issues) :
            IsCounted(arg.issues[k]) =>
                LET wo == MapWithout(k)
                IN  \A id \in KnownIds(arg) :
                        Contribution(wo, id) =
                            IF id \in LastEntry(arg.issues[k].sprintIds)
                            THEN storyPointsOf(arg.issues[k]) ELSE 0

C2_Witness ==
    /\ AggDone
    /\ \E k \in 1..Len(arg.issues) :
          /\ arg.issues[k].sprintIds = <<1, 9>>
          /\ IsCounted(arg.issues[k])
          /\ 1 \in KnownIds(arg)
          /\ Contribution(MapWithout(k), 1) = 0
    /\ \E k \in 1..Len(arg.issues) : Contribution(MapWithout(k), 1) > 0

OnlyCounted(issues) == SelectSeq(issues, IsCounted)

DomIsCounted(row) ==
    /\ ~row.rowheader
    /\ domStoryPoints(row) # 0
    /\ MatchesSomeTag(domSummaryText(row))

DomPointsIn(row, c) ==
    IF /\ ~row.rowheader /\ domStoryPoints(row) # 0
       /\ getDevTypeDom(domSummaryText(row)) = c
    THEN domStoryPoints(row) ELSE 0

\* C4: the totals are made of counted tickets only. API variant: the map equals
\* the one computed from the response without its zero-estimate and untagged
\* tickets. DOM variant: likewise, and each total is the sum of the estimates of
\* the rows with a non-zero estimate that the classifier puts in that category.
C4_OnlyCountedTickets ==
    /\ AggDone =>
          sprintData =
              processSprintData(<<>>, [arg EXCEPT !.issues = OnlyCounted(@)])
    /\ last.op = "calculateDevTypeSummary" =>
          /\ ret = calculateDevTypeSummary(SelectSeq(arg.issues, DomIsCounted))
          /\ \A c \in Categories :
                ret[c] = SumSeq([i \in 1..Len(arg.issues) |->
                                    DomPointsIn(arg.issues[i], c)])

C4_Witness ==
    /\ AggDone
    /\ \E k \in 1..Len(arg.issues) :
          /\ storyPointsOf(arg.issues[k]) = 0
          /\ MatchesSomeTag(arg.issues[k].summary)
          /\ LastEntry(arg.issues[k].sprintIds) \subseteq KnownIds(arg)
    /\ \E k \in 1..Len(arg.issues) :
          /\ storyPointsOf(arg.issues[k]) # 0
          /\ ~MatchesSomeTag(arg.issues[k].summary)
          /\ LastEntry(arg.issues[k].sprintIds) \subseteq KnownIds(arg)
    /\ \E i \in 1..Len(sprintData) : sprintData[i].summary # ZeroSummary

\* the reference aggregation: the estimates of the issues of category c whose
\* most recent sprint is id
RefTotal(data, id, c) ==
    SumSeq([k \in 1..Len(data.issues) |->
               LET issue == data.issues[k]
               IN  IF /\ getDevType(issue.summary) = c
                      /\ id \in LastEntry(issue.sprintIds)
                   THEN storyPointsOf(issue) ELSE 0])

ExampleData ==
    [kind |-> "api",
     sprints |-> << [id |-> 1, name |-> "Sprint 7", state |-> "ACTIVE"],
                    [id |-> 2, name |-> "Sprint 8", state |-> "FUTURE"] >>,
     issues |-> SubSeq(IssuePool, 1, 4)]

\* C5: processSprintData agrees with the reference aggregation: one entry per
\* known sprint id and no other, each total the sum of the estimates of the
\* issues of that category whose target sprint it is; the example of the spec
\* gives Sprint 7 = {BE:3, FE:5, Fullstack:0}, Sprint 8 = {BE:0, FE:0, Fullstack:2}.
C5_AgreesWithReference ==
    AggDone =>
        /\ Len(sprintData) = Cardinality(KnownIds(arg))
        /\ \A i \in 1..Len(sprintData) :
              /\ sprintData[i].id \in KnownIds(arg)
              /\ \A c \in Categories :
                    sprintData[i].summary[c] = RefTotal(arg, sprintData[i].id, c)
        /\ arg = ExampleData =>
              /\ sprintData[1].name = "Sprint 7"
              /\ sprintData[1].summary = [BE |-> 3, FE |-> 5, Fullstack |-> 0]
              /\ sprintData[2].name = "Sprint 8"
              /\ sprintData[2].summary = [BE |-> 0, FE |-> 0, Fullstack |-> 2]

C5_Witness ==
    /\ AggDone
    /\ arg = ExampleData
    /\ Len(sprintData) = 2
    /\ sprintData[1].summary = [BE |-> 3, FE |-> 5, Fullstack |-> 0]
    /\ sprintData[2].summary = [BE |-> 0, FE |-> 0, Fullstack |-> 2]

\* C6: after any number of runs the summary map is the one a single run on
\* the last response gives from an empty map: nothing of earlier responses
\* survives, and a second run on the same response changes nothing.
C6_RecomputedEachRun ==
    last.op = "processSprintData" =>
        /\ sprintData = processSprintData(<<>>, arg)
        /\ \A i \in 1..Len(sprintData) : sprintData[i].id \in KnownIds(arg)

C6_Witness ==
    /\ last.op = "processSprintData"
    /\ last.runs = 2
    /\ last.stale
    /\ \E i \in 1..Len(sprintData) : sprintData[i].summary # ZeroSummary

BucketOf(map, id, c, bucket) ==
    IF MapHas(map, id) THEN MapGet(map, id).detailed[c][bucket] ELSE 0

\* the labels of a finished ticket
IsDoneLabel(status) ==
    \/ status = "Closed" \/ status = "Done" \/ status = "On Prod"
    \/ status = "On RC" \/ status = "Won't Do"

\* what issue k added to a bucket: the bucket in sprintData less the bucket in
\* without, the map of the same response without issue k
BucketContribution(without, id, c, bucket) ==
    BucketOf(sprintData, id, c, bucket) - BucketOf(without, id, c, bucket)

\* C15: after a run, for every sprint and category done + inProgress equals the
\* category total; and what a ticket adds to a category total it adds to the
\* 'done' bucket alone when its status is one of Closed, Done, On Prod, On RC,
\* Won't Do, and to the 'inProgress' bucket alone for any other or no status.
C15_StatusBreakdown ==
    AggDone =>
        /\ \A i \in 1..Len(sprintData) : \A c \in Categories :
              sprintData[i].detailed[c].done + sprintData[i].detailed[c].inProgress
                  = sprintData[i].summary[c]
        /\ \A k \in 1..Len(arg.issues) :
              LET wo == MapWithout(k)
                  st == arg.issues[k].statusName
              IN  \A id \in KnownIds(arg) : \A c \in Categories :
                     LET added == TotalOf(sprintData, id, c) - TotalOf(wo, id, c)
                     IN  /\ BucketContribution(wo, id, c, "done")
                               = IF IsDoneLabel(st) THEN added ELSE 0
                         /\ BucketContribution(wo, id, c, "inProgress")
                               = IF IsDoneLabel(st) THEN 0 ELSE added

C15_Witness ==
    /\ AggDone
    /\ \E k \in 1..Len(arg.issues) :
          /\ arg.issues[k].statusName = ""
          /\ \E id \in KnownIds(arg) :
                BucketContribution(MapWithout(k), id, "Fullstack", "inProgress") = 2
    /\ \E i \in 1..Len(sprintData) :
          /\ sprintData[i].detailed["BE"].done = 2
          /\ sprintData[i].detailed["BE"].inProgress = 3

-----------------------------------------------------------------------------
(* Life cycle: the page, the server and the renderer *)

MaxCycles == 3
MaxContainers == 2

MAX_RETRY_ATTEMPTS == 3

toUpperChar(c) ==
    IF c \in LowerSet
    THEN Upper[CHOOSE k \in 1..26 : Lower[k] = c]
    ELSE c

RECURSIVE toUpperCase(_)
toUpperCase(s) ==
    IF Len(s) = 0 THEN ""
    ELSE toUpperChar(CharAt(s, 1)) \o toUpperCase(SubSeq(s, 2, Len(s)))

\* s.replace(/\s+/g, '-')
RECURSIVE replaceSpaces(_)
replaceSpaces(s) ==
    IF Len(s) = 0 THEN ""
    ELSE IF IsSpace(CharAt(s, 1)) THEN "-" \o replaceSpaces(trimStart(s))
    ELSE CharAt(s, 1) \o replaceSpaces(SubSeq(s, 2, Len(s)))

LifeUrls == {"boards/42/backlog?", "boards/42/backlog?x", "boards/42"}

\* API variant: the elements matching [data-testid*="estimations-and-actions-
\* container"], in document order. stats: the parent element (the statistics
\* area); inSprint: there is an enclosing [data-drop-target-for-element="true"];
\* h2: the text of its h2, "" when it has none
Anchor(stats, inSprint, h2) == [stats |-> stats, inSprint |-> inSprint, h2 |-> h2]

ApiPages ==
    { << Anchor(1, TRUE, "Sprint 7"), Anchor(2, TRUE, "Sprint 8") >>,
      << Anchor(1, TRUE, "Sprint  7"), Anchor(2, FALSE, "Sprint 8"),
         Anchor(3, TRUE, "") >> }

\* DOM variant: the elements matching the sprint-container selector, in document
\* order. cid: data-test-id or id, "" when it has neither; header: it holds a
\* sprint header; issues: its issue rows; stats: its statistics area, 0 for none
Container(cid, header, issues, stats) ==
    [cid |-> cid, header |-> header, issues |-> issues, stats |-> stats]

ContainerPool ==
    { Container("sprint-container.A", TRUE, SubSeq(DomIssuePool, 1, 3), 1),
      Container("", TRUE, <<DomIssuePool[8]>>, 2),
      Container("", FALSE, <<>>, 0),
      Container("", TRUE, <<DomIssuePool[2]>>, 3) }

DomPages == Arrangements(ContainerPool, MaxContainers)

StatsAreas == 1..3

\* the body of the board-configuration response
ConfigResponses ==
    {[status |-> "error", type |-> "", estimation |-> FALSE],
     [status |-> "http",  type |-> "", estimation |-> FALSE]}
    \cup {[status |-> "ok", type |-> t, estimation |-> e] :
             t \in {"scrum", "kanban", ""}, e \in BOOLEAN}

LifeData ==
    { ExampleData,
      [kind |-> "api",
       sprints |-> << [id |-> 1, name |-> "Sprint 7", state |-> "ACTIVE"] >>,
       issues |-> <<IssuePool[1], IssuePool[10]>>],
      [kind |-> "api", sprints |-> <<>>, issues |-> <<>>] }

DataResponses ==
    {[status |-> "error", data |-> <<>>], [status |-> "http", data |-> <<>>]}
    \cup {[status |-> "ok", data |-> d] : d \in LifeData}

-----------------------------------------------------------------------------
(* The pure functions of the script, tabulated over the inputs of the life cycle *)

sprintNameOf(anchor, index) ==
    IF Len(anchor.h2) > 0 THEN anchor.h2 ELSE "sprint-" \o ToString(index)

\* extractBoardId(), reading window.location.href
BoardIdOf == [href \in LifeUrls |-> extractBoardId(href)]

\* window.location.href.includes('backlog')
OnBacklog == [href \in LifeUrls |-> includes(href, "backlog")]

\* the values the summary map takes: empty, or built from a payload
SprintMaps == {<<>>} \cup {processSprintData(<<>>, d) : d \in LifeData}

\* processSprintData(data), the summary map being map before the call
Processed == [map \in SprintMaps, d \in LifeData |-> processSprintData(map, d)]

\* the names updateUI gives the anchors of a page
AnchorNames ==
    UNION {{sprintNameOf(page[i], i - 1) : i \in 1..Len(page)} : page \in ApiPages}

\* sprintName.replace(/\s+/g, '-')
ContainerIdOf == [name \in AnchorNames |-> replaceSpaces(name)]

\* calculateDevTypeSummary(issues), for the rows of a container
SummaryOf == [c \in ContainerPool |-> calculateDevTypeSummary(c.issues)]

-----------------------------------------------------------------------------
(* API variant *)

detectBoardTypeAndEstimations_AnyType(resp) ==
    IF resp.status = "ok"
    THEN [isScrum |-> TRUE, usesEstimations |-> resp.estimation]
    ELSE [isScrum |-> FALSE, usesEstimations |-> FALSE]

\* what detectBoardTypeAndEstimations resolves to, given the response
detectBoardTypeAndEstimations(resp) ==
    IF resp.status = "ok"
    THEN LET boardType == IF Len(resp.type) > 0 THEN toUpperCase(resp.type) ELSE ""
         IN  [isScrum |-> boardType = "SCRUM", usesEstimations |-> resp.estimation]
    ELSE [isScrum |-> FALSE, usesEstimations |-> FALSE]

\* the first entry of the map, in insertion order, with that name
lookupByName(map, sprintName) ==
    LET at == {i \in 1..Len(map) : map[i].name = sprintName}
    IN  IF at = {}
        THEN [summary |-> ZeroSummary, detailed |-> ZeroDetailed]
        ELSE LET e == map[CHOOSE i \in at : \A k \in at : i <= k]
             IN  [summary |-> e.summary, detailed |-> e.detailed]

\* the body of estimationContainers.forEach; st = [badges, injected]
updateAnchor(st, map, anchor, index, usePlaceholders) ==
    LET sprintName  == sprintNameOf(anchor, index)
        containerId == ContainerIdOf[sprintName]
        badge       == IF usePlaceholders
                       THEN [summary |-> ZeroSummary, detailed |-> ZeroDetailed]
                       ELSE lookupByName(map, sprintName)
    IN  IF ~anchor.inSprint THEN st
        ELSE IF containerId \in st.injected THEN st
        ELSE [badges   |-> [st.badges EXCEPT ![anchor.stats] = <<badge>> \o @],
              injected |-> st.injected \cup {containerId}]

RECURSIVE updateAnchors(_, _, _, _, _)
updateAnchors(st, map, page, i, usePlaceholders) ==
    IF i > Len(page) THEN st
    ELSE updateAnchors(updateAnchor(st, map, page[i], i - 1, usePlaceholders),
                       map, page, i + 1, usePlaceholders)

updateUI(st, map, page, usePlaceholders) ==
    updateAnchors(st, map, page, 1, usePlaceholders)

fetchFailed_NoPlaceholders(st, map, page) == updateUI(st, map, page, FALSE)

\* the .catch of fetchSprintData(): updateUI(true)
fetchFailed(st, map, page) == updateUI(st, map, page, TRUE)

\* addDevTypeSummaries up to its first await, the processed set being inj
ApiAddDevTypeSummaries(trigger, inj) ==
    /\ cycles < MaxCycles
    /\ cycles' = cycles + 1
    /\ injectedSprints' = inj
    /\ cfgInFlight' =
          IF OnBacklog[url]
          THEN cfgInFlight \cup {[id |-> cycles + 1, boardId |-> BoardIdOf[url]]}
          ELSE cfgInFlight
    /\ last' = [op |-> trigger]
    /\ UNCHANGED <<variant, url, sprintData, dataInFlight, badges, attemptCount, scans,
                   retryTimers, dom, navigated, mutated, arg, ret>>

\* setTimeout(..., 1500): the first run, then the URL observer is installed
ApiPageLoad ==
    /\ variant = "api" /\ ~loaded
    /\ loaded' = TRUE
    /\ lastUrl' = url
    /\ ApiAddDevTypeSummaries("load", injectedSprints)

\* the URL observer, called on a mutation of the document after the address changed
ApiUrlChange ==
    /\ variant = "api" /\ loaded
    /\ url # lastUrl
    /\ lastUrl' = url
    /\ ApiAddDevTypeSummaries("urlChange", {})
    /\ UNCHANGED loaded

\* window.triggerSprintSummary()
ApiManualTrigger ==
    /\ variant = "api"
    /\ ApiAddDevTypeSummaries("manual", {})
    /\ UNCHANGED <<loaded, lastUrl>>

\* the board-configuration request completes: the .then of addDevTypeSummaries
ApiConfigResponse(req, resp) ==
    /\ variant = "api"
    /\ req \in cfgInFlight
    /\ cfgInFlight' = cfgInFlight \ {req}
    /\ LET board == detectBoardTypeAndEstimations(resp)
           now   == [badges |-> badges, injected |-> injectedSprints]
           st    == IF board.isScrum /\ board.usesEstimations /\ Len(sprintData) > 0
                    THEN updateUI(now, sprintData, dom, FALSE)
                    ELSE now
       IN  /\ badges' = st.badges
           /\ injectedSprints' = st.injected
           /\ dataInFlight' =
                  IF board.isScrum /\ board.usesEstimations /\ Len(sprintData) = 0
                  THEN dataInFlight \cup {[id |-> req.id, boardId |-> BoardIdOf[url]]}
                  ELSE dataInFlight
           /\ last' = [op |-> "config", resp |-> resp,
                       shown |-> Cardinality(st.injected \ injectedSprints)]
    /\ UNCHANGED <<variant, url, lastUrl, loaded, sprintData, attemptCount, scans,
                   retryTimers, dom, cycles, navigated, mutated, arg, ret>>

\* the backlog-data request completes: fetchSprintData and its .then / .catch.
\* stale: the request is the first of the page and the map already holds the
\* response of another, hence later, request
ApiDataResponse(req, resp) ==
    /\ variant = "api"
    /\ req \in dataInFlight
    /\ dataInFlight' = dataInFlight \ {req}
    /\ LET now == [badges |-> badges, injected |-> injectedSprints]
           map == IF resp.status = "ok"
                  THEN Processed[sprintData, resp.data]
                  ELSE sprintData
           st  == IF resp.status = "ok"
                  THEN updateUI(now, map, dom, FALSE)
                  ELSE fetchFailed(now, map, dom)
       IN  /\ sprintData' = map
           /\ badges' = st.badges
           /\ injectedSprints' = st.injected
           /\ last' = [op |-> "data", resp |-> resp,
                       stale |-> req.id = 1 /\ Len(sprintData) > 0,
                       changed |-> map # sprintData,
                       shown |-> Cardinality(st.injected \ injectedSprints)]
    /\ UNCHANGED <<variant, url, lastUrl, loaded, cfgInFlight, attemptCount, scans,
                   retryTimers, dom, cycles, navigated, mutated, arg, ret>>

\* the host application changes the address (history.pushState)
Navigate(href) ==
    /\ href # url
    /\ url' = href
    /\ navigated' = TRUE
    /\ last' = [op |-> "navigate"]
    /\ UNCHANGED <<variant, lastUrl, loaded, injectedSprints, sprintData, cfgInFlight,
                   dataInFlight, badges, attemptCount, scans, retryTimers, dom, cycles,
                   mutated, arg, ret>>

-----------------------------------------------------------------------------
(* DOM variant *)

domContainerId(container, index) ==
    IF Len(container.cid) > 0 THEN container.cid
    ELSE "sprint-container-" \o ToString(index)

\* the body of sprintContainers.forEach; st = [badges, injected, processedAny]
domProcessContainer(st, container, index) ==
    LET containerId == domContainerId(container, index)
        badge == [summary  |-> SummaryOf[container],
                  detailed |-> ZeroDetailed]
    IN  IF containerId \in st.injected THEN st
        ELSE IF ~container.header THEN st
        ELSE IF Len(container.issues) = 0 THEN st
        ELSE IF container.stats = 0 THEN st
        ELSE [badges       |-> [st.badges EXCEPT ![container.stats] = @ \o <<badge>>],
              injected     |-> st.injected \cup {containerId},
              processedAny |-> TRUE]

RECURSIVE domProcessContainers(_, _, _)
domProcessContainers(st, page, i) ==
    IF i > Len(page) THEN st
    ELSE domProcessContainers(domProcessContainer(st, page[i], i - 1), page, i + 1)

\* scheduleRetry(): the number of pending retry timers afterwards
scheduleRetry(count, timers) ==
    IF count < MAX_RETRY_ATTEMPTS THEN timers + 1 ELSE timers

\* addDevTypeSummaries of the DOM variant past its attempt limit;
\* st = [attemptCount, scans, retryTimers, badges, injected]
domScan(st, href, page) ==
    LET count == st.attemptCount + 1
    IN  IF ~OnBacklog[href]
        THEN [st EXCEPT !.attemptCount = count]
        ELSE IF Len(page) = 0
        THEN [st EXCEPT !.attemptCount = count,
                        !.scans = @ + 1,
                        !.retryTimers = scheduleRetry(count, @)]
        ELSE LET done == domProcessContainers(
                             [badges |-> st.badges, injected |-> st.injected,
                              processedAny |-> FALSE], page, 1)
             IN  [attemptCount |-> count,
                  scans        |-> st.scans + 1,
                  retryTimers  |-> IF ~done.processedAny /\ count < MAX_RETRY_ATTEMPTS
                                   THEN scheduleRetry(count, st.retryTimers)
                                   ELSE st.retryTimers,
                  badges       |-> done.badges,
                  injected     |-> done.injected]

domAddDevTypeSummaries_NoLimit(st, href, page) == domScan(st, href, page)

\* addDevTypeSummaries of the DOM variant
domAddDevTypeSummaries(st, href, page) ==
    IF st.attemptCount >= MAX_RETRY_ATTEMPTS THEN st
    ELSE domScan(st, href, page)

\* one call of addDevTypeSummaries with attemptCount = count and timers pending
DomRun(trigger, count, timers, page) ==
    LET st == domAddDevTypeSummaries(
                  [attemptCount |-> count,
                   scans |-> IF trigger = "retry" THEN scans ELSE 0,
                   retryTimers |-> timers,
                   badges |-> badges, injected |-> injectedSprints], url, page)
    IN  /\ attemptCount' = st.attemptCount
        /\ scans' = st.scans
        /\ retryTimers' = st.retryTimers
        /\ badges' = st.badges
        /\ injectedSprints' = st.injected
        /\ last' = [op |-> trigger,
                    shown |-> Cardinality(st.injected \ injectedSprints)]
        /\ UNCHANGED <<variant, url, sprintData, cfgInFlight, dataInFlight,
                       navigated, arg, ret>>

\* setTimeout(..., 1000): the first run, then both observers are installed
DomPageLoad ==
    /\ variant = "dom" /\ ~loaded
    /\ cycles < MaxCycles
    /\ loaded' = TRUE
    /\ lastUrl' = url
    /\ cycles' = cycles + 1
    /\ DomRun("load", 0, retryTimers, dom)
    /\ UNCHANGED <<dom, mutated>>

\* the pages the host can make of page by adding one container, first or last
Grown(page) ==
    IF Len(page) >= MaxContainers THEN {}
    ELSE UNION {{<<c>> \o page, page \o <<c>>} :
                    c \in {x \in ContainerPool : \A i \in 1..Len(page) : page[i] # x}}

\* the host adds nodes holding a sprint container or a row (a new container, or
\* rows rendered again), and the mutation observer runs
DomMutation(page) ==
    /\ variant = "dom" /\ loaded
    /\ cycles < MaxCycles
    /\ page \in Grown(dom) \cup {dom}
    /\ dom' = page
    /\ mutated' = (mutated \/ page # dom)
    /\ cycles' = cycles + 1
    /\ DomRun("mutation", 0, retryTimers, page)
    /\ UNCHANGED <<loaded, lastUrl>>

\* the URL observer, called on a mutation of the document after the address changed
DomUrlChange ==
    /\ variant = "dom" /\ loaded
    /\ cycles < MaxCycles
    /\ url # lastUrl
    /\ lastUrl' = url
    /\ cycles' = cycles + 1
    /\ DomRun("urlChange", 0, retryTimers, dom)
    /\ UNCHANGED <<loaded, dom, mutated>>

\* window.triggerSprintSummary()
DomManualTrigger ==
    /\ variant = "dom"
    /\ cycles < MaxCycles
    /\ cycles' = cycles + 1
    /\ DomRun("manual", 0, retryTimers, dom)
    /\ UNCHANGED <<loaded, lastUrl, dom, mutated>>

\* a timer of scheduleRetry fires
DomRetryTimer ==
    /\ variant = "dom"
    /\ retryTimers > 0
    /\ DomRun("retry", attemptCount, retryTimers - 1, dom)
    /\ UNCHANGED <<loaded, lastUrl, dom, mutated, cycles>>

-----------------------------------------------------------------------------
(* The content script on a page *)

Init ==
    /\ variant \in {"api", "dom"}
    /\ url \in LifeUrls
    /\ lastUrl = ""
    /\ loaded = FALSE
    /\ injectedSprints = {}
    /\ sprintData = <<>>
    /\ cfgInFlight = {}
    /\ dataInFlight = {}
    /\ badges = [a \in StatsAreas |-> <<>>]
    /\ attemptCount = 0
    /\ scans = 0
    /\ retryTimers = 0
    /\ dom \in IF variant = "api" THEN ApiPages ELSE DomPages
    /\ cycles = 0
    /\ last = [op |-> "init"]
    /\ navigated = FALSE
    /\ mutated = FALSE
    /\ arg = ""
    /\ ret = ""

Next ==
    \/ ApiPageLoad
    \/ ApiUrlChange
    \/ ApiManualTrigger
    \/ \E req \in cfgInFlight, resp \in ConfigResponses : ApiConfigResponse(req, resp)
    \/ \E req \in dataInFlight, resp \in DataResponses : ApiDataResponse(req, resp)
    \/ DomPageLoad
    \/ \E page \in DomPages : DomMutation(page)
    \/ DomUrlChange
    \/ DomManualTrigger
    \/ DomRetryTimer
    \/ \E href \in LifeUrls : Navigate(href)

Spec == Init /\ [][Next]_vars

\* The DOM variant alone, its timers being served: the callbacks of setTimeout
\* (the first run, the retries) run once their delay has passed
InitDom == Init /\ variant = "dom"

NextDom ==
    \/ DomPageLoad
    \/ \E page \in DomPages : DomMutation(page)
    \/ DomUrlChange
    \/ DomManualTrigger
    \/ DomRetryTimer
    \/ \E href \in LifeUrls : Navigate(href)

SpecDom ==
    InitDom /\ [][NextDom]_vars /\ WF_vars(DomPageLoad) /\ WF_vars(DomRetryTimer)

-----------------------------------------------------------------------------
(* Properties of the life cycle *)

\* C7: on a page whose address and containers have not changed, no statistics
\* area ever holds more than one injected badge, whatever triggers ran.
C7_AtMostOneBadge ==
    (~navigated /\ ~mutated) => \A a \in StatsAreas : Len(badges[a]) <= 1

ZeroBadge == [summary |-> ZeroSummary, detailed |-> ZeroDetailed]

AnchorKey(page, i) == ContainerIdOf[sprintNameOf(page[i], i - 1)]

\* the anchors a pass over page renders: inside a sprint section, their key not
\* in the processed set inj and not that of an earlier such anchor
EligibleAnchors(page, inj) ==
    {i \in 1..Len(page) :
        /\ page[i].inSprint
        /\ AnchorKey(page, i) \notin inj
        /\ \A j \in 1..(i - 1) :
              ~(page[j].inSprint /\ AnchorKey(page, j) = AnchorKey(page, i))}

FetchFailedStep == last'.op = "data" /\ last'.resp.status # "ok"

\* C9: when a backlog-data request fails, the handler leaves the summary map
\* as it was and renders, for every eligible anchor not yet processed, one badge
\* with all-zero totals (and marks it processed), and nothing else.
C9_FetchFailureRendersZeros ==
    [][FetchFailedStep =>
          LET new == EligibleAnchors(dom, injectedSprints)
          IN  /\ sprintData' = sprintData
              /\ injectedSprints' =
                    injectedSprints \cup {AnchorKey(dom, i) : i \in new}
              /\ \A a \in StatsAreas :
                    LET n == Cardinality({i \in new : dom[i].stats = a})
                    IN  /\ Len(badges'[a]) = Len(badges[a]) + n
                        /\ \A k \in 1..n : badges'[a][k] = ZeroBadge
                        /\ SubSeq(badges'[a], n + 1, Len(badges'[a])) = badges[a]
    ]_vars

C9_Witness ==
    /\ last.op = "data" /\ last.resp.status # "ok"
    /\ last.shown = 2
    /\ \E i \in 1..Len(sprintData) :
          /\ sprintData[i].name = dom[1].h2
          /\ sprintData[i].summary # ZeroSummary
    /\ Head(badges[dom[1].stats]) = ZeroBadge

\* the board is a SCRUM board with an estimation field, by its configuration
EligibleBoard(resp) ==
    /\ resp.status = "ok"
    /\ Len(resp.type) = 5 /\ ContainsAnyCase(resp.type, "SCRUM")
    /\ resp.estimation

CycleStartStep ==
    last'.op \in {"load", "urlChange", "manual", "mutation", "retry"}

\* C10: a cycle started on an address without 'backlog', and (API variant) a
\* cycle whose configuration request fails or shows no SCRUM board with an
\* estimation field, inserts no badge, issues no request, adds nothing to the
\* processed-sprint set and schedules no retry.
C10_IneligiblePageNoEffect ==
    [][(\/ CycleStartStep /\ ~includes(url', "backlog")
        \/ last'.op = "config" /\ ~EligibleBoard(last'.resp))
          => /\ badges' = badges
             /\ dataInFlight' = dataInFlight
             /\ cfgInFlight' \subseteq cfgInFlight
             /\ injectedSprints' \subseteq injectedSprints
             /\ retryTimers' <= retryTimers
    ]_vars

C10_Witness ==
    /\ last.op = "config"
    /\ last.resp.status = "ok" /\ last.resp.type = "kanban" /\ last.resp.estimation
    /\ includes(url, "backlog")
    /\ dataInFlight = {}
    /\ \A a \in StatsAreas : badges[a] = <<>>

-----------------------------------------------------------------------------
(* Properties of the retry loop of the DOM variant *)

\* C11: attemptCount never exceeds MAX_RETRY_ATTEMPTS (3), the script makes at
\* most that many passes over the page after a trigger, and once the triggers
\* have stopped the retries stop for good with no retry timer left pending.
C11_RetryLoopBounded ==
    /\ [](attemptCount <= 3 /\ attemptCount <= MAX_RETRY_ATTEMPTS)
    /\ [](scans <= 3 /\ scans <= attemptCount)
    /\ <>[](retryTimers = 0)

C11_Witness ==
    /\ last.op = "retry"
    /\ includes(url, "backlog")
    /\ attemptCount = 3 /\ scans = 3
    /\ retryTimers = 0
    /\ \A a \in StatsAreas : badges[a] = <<>>

\* C17: at any moment at most one retry timer is pending.
C17_AtMostOneRetryTimer == retryTimers <= 1

-----------------------------------------------------------------------------
(* Properties of the watchers *)

\* a sprint container with a sprint header, an issue and a statistics area
DomEligible(c) == c.header /\ Len(c.issues) > 0 /\ c.stats # 0

OnPage(c) == \E i \in 1..Len(dom) : dom[i] = c

\* C12: right after the navigation watcher saw the address change, the
\* processed-sprint set holds nothing from before: in the API variant it is
\* empty, in the DOM variant (whose cycle runs at once) every eligible sprint
\* container of the backlog page has been injected anew by this cycle.
C12_NavigationClearsProcessedSet ==
    last.op = "urlChange" =>
        IF variant = "api"
        THEN injectedSprints = {}
        ELSE includes(url, "backlog") =>
                last.shown = Cardinality({i \in 1..Len(dom) : DomEligible(dom[i])})

\* C14: a sprint container with a header, an issue and a statistics area that
\* is on the backlog page once the script has started eventually holds a badge
\* in its statistics area, unless the page leaves the address it was loaded on.
C14_EligibleContainerGetsBadge ==
    \A c \in {x \in ContainerPool : DomEligible(x)} :
        (loaded /\ ~navigated /\ includes(url, "backlog") /\ OnPage(c))
            ~> (navigated \/ Len(badges[c.stats]) > 0)

\* C13: the configuration response of a cycle that an explicit refresh (manual
\* trigger or navigation change) has just started, the board being a SCRUM
\* board with an estimation field, issues the backlog-data request of that cycle.
C13_ExplicitRefreshFetchesAgain ==
    [][(/\ last.op \in {"manual", "urlChange"}
        /\ last'.op = "config" /\ EligibleBoard(last'.resp)
        /\ \E r \in cfgInFlight \ cfgInFlight' : r.id = cycles)
          => \E d \in dataInFlight' \ dataInFlight : d.id = cycles
    ]_vars

-----------------------------------------------------------------------------
(* Properties of the responses *)

\* what processSprintData makes of a payload alone
FreshMap == [d \in LifeData |-> processSprintData(<<>>, d)]

\* C16: every successful backlog-data response is processed, whatever the
\* order of the requests: the summary map becomes what processSprintData makes
\* of that response alone, also when it held the result of a later request,
\* and every eligible anchor not marked processed gets one badge from that map.
C16_StaleResponseOverwrites ==
    [][(last'.op = "data" /\ last'.resp.status = "ok") =>
          LET new == EligibleAnchors(dom, injectedSprints)
          IN  /\ sprintData' = FreshMap[last'.resp.data]
              /\ injectedSprints' =
                    injectedSprints \cup {AnchorKey(dom, i) : i \in new}
              /\ \A a \in StatsAreas :
                    LET here == {i \in new : dom[i].stats = a}
                        n    == Cardinality(here)
                    IN  /\ Len(badges'[a]) = Len(badges[a]) + n
                        /\ \A k \in 1..n : \E i \in here :
                              badges'[a][k] =
                                  lookupByName(sprintData', sprintNameOf(dom[i], i - 1))
                        /\ SubSeq(badges'[a], n + 1, Len(badges'[a])) = badges[a]
    ]_vars

C16_Witness ==
    /\ last.op = "data" /\ last.resp.status = "ok"
    /\ last.stale /\ last.changed
    /\ last.shown = 2
    /\ sprintData = FreshMap[last.resp.data]
    /\ \E a \in StatsAreas :
          /\ Len(badges[a]) >= 2
          /\ badges[a][1].summary # badges[a][2].summary

====
